---------------------------- MODULE Spec2Model ----------------------------
(***************************************************************************)
(* Model of the folding-laundry robot arm controller:                      *)
(*   python/safety.py    SafetyChecker (pose, collision, transition check) *)
(*   python/robot_arm.py RobotArm (connect, move_to_pose, gripper, stop)   *)
(*   python/poses.py     the pose catalogue                                *)
(*                                                                         *)
(* A pose is a record of its five integer joint values; the name field of  *)
(* the dataclass is used by the code only inside print(), and is left out. *)
(* The serial link is modelled by the characters written to it.            *)
(***************************************************************************)
EXTENDS Integers, Sequences, FiniteSets, TLC

VARIABLES
    is_connected,            \* RobotArm.is_connected
    serial_conn,             \* RobotArm.serial_conn: "None", "open" or "closed"
    current_pose,            \* RobotArm.current_pose: NoPose or a pose
    collision_count,         \* SafetyChecker.collision_count
    safety_violation_count,  \* SafetyChecker.safety_violation_count
    link,                    \* characters written to the serial link by the call(s) observed
    call,                    \* the last sequential call: its name and its inputs
    ret,                     \* what that call returned: "True", "False", "None" or "raise"
    err,                     \* TRUE iff the link raised a transport error during that call
    pc,                      \* per execution context: position inside move_to_pose
    tgt,                     \* per execution context: the pose argument of its call
    seen,                    \* per execution context: the current_pose its call read
    tret                     \* per execution context: the value its call returned

vars == <<is_connected, serial_conn, current_pose, collision_count,
          safety_violation_count, link, call, ret, err, pc, tgt, seen, tret>>

armVars  == <<is_connected, serial_conn, current_pose>>
statVars == <<collision_count, safety_violation_count>>
ctxVars  == <<pc, tgt, seen, tret>>
seqVars  == <<call, ret, err>>

---------------------------------------------------------------------------
(* Bounds of the model *)

\* is_pose_safe is not called once a counter has reached MaxCount
MaxCount == 2

---------------------------------------------------------------------------
(* poses.py *)

Pose(b, s, e, w, g) ==
    [base |-> b, shoulder |-> s, elbow |-> e, wrist |-> w, gripper |-> g]

\* Optional[Pose] = None
NoPose == [none |-> TRUE]

\* variant of POSE_HOME with the shoulder lowered to 70
POSE_HOME_LowShoulder == Pose(90, 70, 90, 90, 10)

POSE_HOME   == Pose(90, 90, 90, 90, 10)
POSE_PICKUP == Pose(90, 45, 135, 90, 10)

---------------------------------------------------------------------------
(* safety.py: SafetyChecker *)

BASE_MIN == 0
BASE_MAX == 180
SHOULDER_MIN == 15
SHOULDER_MAX == 165
ELBOW_MIN == 0
ELBOW_MAX == 180
WRIST_MIN == 0
WRIST_MAX == 180
GRIPPER_MIN == 10
GRIPPER_MAX == 90

MAX_JOINT_CHANGE == 90

\* (shoulder_min, shoulder_max, elbow_min, elbow_max)
COLLISION_ZONES == << <<15, 40, 0, 30>> >>

Abs(n) == IF n < 0 THEN -n ELSE n

\* variant of IsAngleInRange with exclusive bounds
IsAngleInRange_Exclusive(angle, min_val, max_val) ==
    min_val < angle /\ angle < max_val

IsAngleInRange(angle, min_val, max_val) ==
    min_val <= angle /\ angle <= max_val

IsInCollisionZone(pose) ==
    \E i \in 1..Len(COLLISION_ZONES) :
        LET zone == COLLISION_ZONES[i] IN
            /\ zone[1] <= pose.shoulder /\ pose.shoulder <= zone[2]
            /\ zone[3] <= pose.elbow /\ pose.elbow <= zone[4]

\* is_pose_safe applied with the counters at cc (collision_count) and
\* svc (safety_violation_count): the result and the counters afterwards.
PoseVerdict(ok, cc, svc) ==
    [ok |-> ok, collision_count |-> cc, safety_violation_count |-> svc]

\* variant of IsPoseSafe that looks at the collision zones before the ranges
IsPoseSafe_ZoneFirst(pose, cc, svc) ==
    IF IsInCollisionZone(pose)
        THEN PoseVerdict(FALSE, cc + 1, svc)
    ELSE IF \/ ~IsAngleInRange(pose.base, BASE_MIN, BASE_MAX)
            \/ ~IsAngleInRange(pose.shoulder, SHOULDER_MIN, SHOULDER_MAX)
            \/ ~IsAngleInRange(pose.elbow, ELBOW_MIN, ELBOW_MAX)
            \/ ~IsAngleInRange(pose.wrist, WRIST_MIN, WRIST_MAX)
            \/ ~IsAngleInRange(pose.gripper, GRIPPER_MIN, GRIPPER_MAX)
        THEN PoseVerdict(FALSE, cc, svc + 1)
    ELSE PoseVerdict(TRUE, cc, svc)

IsPoseSafe(pose, cc, svc) ==
    IF ~IsAngleInRange(pose.base, BASE_MIN, BASE_MAX)
        THEN PoseVerdict(FALSE, cc, svc + 1)
    ELSE IF ~IsAngleInRange(pose.shoulder, SHOULDER_MIN, SHOULDER_MAX)
        THEN PoseVerdict(FALSE, cc, svc + 1)
    ELSE IF ~IsAngleInRange(pose.elbow, ELBOW_MIN, ELBOW_MAX)
        THEN PoseVerdict(FALSE, cc, svc + 1)
    ELSE IF ~IsAngleInRange(pose.wrist, WRIST_MIN, WRIST_MAX)
        THEN PoseVerdict(FALSE, cc, svc + 1)
    ELSE IF ~IsAngleInRange(pose.gripper, GRIPPER_MIN, GRIPPER_MAX)
        THEN PoseVerdict(FALSE, cc, svc + 1)
    ELSE IF IsInCollisionZone(pose)
        THEN PoseVerdict(FALSE, cc + 1, svc)
    ELSE PoseVerdict(TRUE, cc, svc)

\* variant of IsTransitionSafe that does not look at the base
IsTransitionSafe_IgnoresBase(cur, target) ==
    /\ Abs(target.shoulder - cur.shoulder) <= MAX_JOINT_CHANGE
    /\ Abs(target.elbow - cur.elbow) <= MAX_JOINT_CHANGE
    /\ Abs(target.wrist - cur.wrist) <= MAX_JOINT_CHANGE

\* variant of IsTransitionSafe that refuses a change of exactly MAX_JOINT_CHANGE
IsTransitionSafe_Inclusive(cur, target) ==
    /\ Abs(target.base - cur.base) < MAX_JOINT_CHANGE
    /\ Abs(target.shoulder - cur.shoulder) < MAX_JOINT_CHANGE
    /\ Abs(target.elbow - cur.elbow) < MAX_JOINT_CHANGE
    /\ Abs(target.wrist - cur.wrist) < MAX_JOINT_CHANGE

IsTransitionSafe(cur, target) ==
    LET base_change     == Abs(target.base - cur.base)
        shoulder_change == Abs(target.shoulder - cur.shoulder)
        elbow_change    == Abs(target.elbow - cur.elbow)
        wrist_change    == Abs(target.wrist - cur.wrist)
        gripper_change  == Abs(target.gripper - cur.gripper)
    IN  IF base_change > MAX_JOINT_CHANGE THEN FALSE
        ELSE IF shoulder_change > MAX_JOINT_CHANGE THEN FALSE
        ELSE IF elbow_change > MAX_JOINT_CHANGE THEN FALSE
        ELSE IF wrist_change > MAX_JOINT_CHANGE THEN FALSE
        ELSE TRUE

---------------------------------------------------------------------------
(* robot_arm.py: what move_to_pose writes to the link *)

DigitChars == <<"0", "1", "2", "3", "4", "5", "6", "7", "8", "9">>

RECURSIVE Digits(_)
Digits(n) ==
    IF n < 10 THEN <<DigitChars[n + 1]>>
    ELSE Digits(n \div 10) \o <<DigitChars[(n % 10) + 1]>>

\* str(n).encode() for an int n
Str(n) == IF n < 0 THEN <<"-">> \o Digits(-n) ELSE Digits(n)

\* One write on the link.  cmd is TRUE when the write is made by
\* send_command, which afterwards reads the response from the link.
Wr(chars, cmd) == [chars |-> chars, cmd |-> cmd]

\* variant of Writes that also actuates the gripper of the pose before 'x'
Writes_WithGripper(pose) ==
    << Wr(<<"m">>, TRUE),
       Wr(<<"b">>, TRUE), Wr(Str(pose.base), FALSE),     Wr(<<"\n">>, FALSE),
       Wr(<<"s">>, TRUE), Wr(Str(pose.shoulder), FALSE), Wr(<<"\n">>, FALSE),
       Wr(<<"e">>, TRUE), Wr(Str(pose.elbow), FALSE),    Wr(<<"\n">>, FALSE),
       Wr(<<"w">>, TRUE), Wr(Str(pose.wrist), FALSE),    Wr(<<"\n">>, FALSE),
       Wr(IF pose.gripper > 10 THEN <<"c">> ELSE <<"o">>, TRUE),
       Wr(<<"x">>, TRUE) >>

\* The writes of a whole dispatch, in the order of the code.
Writes(pose) ==
    << Wr(<<"m">>, TRUE),
       Wr(<<"b">>, TRUE), Wr(Str(pose.base), FALSE),     Wr(<<"\n">>, FALSE),
       Wr(<<"s">>, TRUE), Wr(Str(pose.shoulder), FALSE), Wr(<<"\n">>, FALSE),
       Wr(<<"e">>, TRUE), Wr(Str(pose.elbow), FALSE),    Wr(<<"\n">>, FALSE),
       Wr(<<"w">>, TRUE), Wr(Str(pose.wrist), FALSE),    Wr(<<"\n">>, FALSE),
       Wr(<<"x">>, TRUE) >>

RECURSIVE Concat(_, _)
\* the characters of the first n writes of ws
Concat(ws, n) ==
    IF n = 0 THEN << >> ELSE Concat(ws, n - 1) \o ws[n].chars

\* A transport fault is a pair (k, rd).  k = 0: the link raises nothing.
\* k > 0: the k-th write of the call raises; with rd = FALSE the write itself
\* raises and its characters are not sent, with rd = TRUE they are sent and
\* the read of the response in send_command raises.
Faults(ws) ==
    { f \in (0..Len(ws)) \X BOOLEAN :
        f[2] => (f[1] > 0 /\ ws[f[1]].cmd) }

\* number of writes that reach the link under fault (k, rd)
SentCount(ws, k, rd) ==
    IF k = 0 THEN Len(ws) ELSE IF rd THEN k ELSE k - 1

Sent(ws, k, rd) == Concat(ws, SentCount(ws, k, rd))

---------------------------------------------------------------------------
(* robot_arm.py: RobotArm, one call at a time *)

Threads == {1, 2}

\* position of an execution context: a place in the method it runs, and with
\* it for the place "send" the number of the command to send next, for the
\* place "store" the counter value read by the pending += 1
At(place, i) == [at |-> place, i |-> i]

\* the sequential calls are made while no other context is inside a call
Idle == \A t \in Threads : pc[t].at = "idle"

\* a call and its inputs: pose is the pose argument, cur the current pose it
\* is made with (the recorded pose, or the first argument of
\* is_transition_safe), open_ok whether the port opens
Call(op, pose, cur, open_ok) ==
    [op |-> op, pose |-> pose, cur |-> cur, open_ok |-> open_ok]

Init ==
    /\ is_connected = FALSE
    /\ serial_conn = "None"
    /\ current_pose = NoPose
    /\ collision_count = 0
    /\ safety_violation_count = 0
    /\ link = << >>
    /\ call = Call("init", NoPose, NoPose, FALSE)
    /\ ret = "None"
    /\ err = FALSE
    /\ pc = [t \in Threads |-> At("idle", 0)]
    /\ tgt = [t \in Threads |-> NoPose]
    /\ seen = [t \in Threads |-> NoPose]
    /\ tret = [t \in Threads |-> "None"]

\* Outcome of a call: returned value, recorded pose and counters afterwards,
\* characters written, and whether a transport error was raised.
Outcome(r, pose, cc, svc, written, e) ==
    [ret |-> r, current_pose |-> pose, collision_count |-> cc,
     safety_violation_count |-> svc, link |-> written, err |-> e]

\* variant of MoveToPoseOutcome without the transition check
MoveToPoseOutcome_NoTransitionCheck(conn, cur, cc, svc, pose, k, rd) ==
    LET v  == IsPoseSafe(pose, cc, svc)
        ws == Writes(pose)
    IN  IF ~conn
            THEN Outcome("False", cur, cc, svc, << >>, FALSE)
        ELSE IF ~v.ok
            THEN Outcome("False", cur, v.collision_count,
                         v.safety_violation_count, << >>, FALSE)
        ELSE IF k = 0
            THEN Outcome("True", pose, v.collision_count,
                         v.safety_violation_count, Sent(ws, 0, FALSE), FALSE)
        ELSE Outcome("False", cur, v.collision_count,
                     v.safety_violation_count, Sent(ws, k, rd), TRUE)

\* variant of MoveToPoseOutcome that records the target before the dispatch
MoveToPoseOutcome_RecordFirst(conn, cur, cc, svc, pose, k, rd) ==
    LET v  == IsPoseSafe(pose, cc, svc)
        ws == Writes(pose)
    IN  IF ~conn
            THEN Outcome("False", cur, cc, svc, << >>, FALSE)
        ELSE IF ~v.ok
            THEN Outcome("False", cur, v.collision_count,
                         v.safety_violation_count, << >>, FALSE)
        ELSE IF cur # NoPose /\ ~IsTransitionSafe(cur, pose)
            THEN Outcome("False", cur, v.collision_count,
                         v.safety_violation_count, << >>, FALSE)
        ELSE IF k = 0
            THEN Outcome("True", pose, v.collision_count,
                         v.safety_violation_count, Sent(ws, 0, FALSE), FALSE)
        ELSE Outcome("False", pose, v.collision_count,
                     v.safety_violation_count, Sent(ws, k, rd), TRUE)

\* variant of MoveToPoseOutcome that does not call is_pose_safe
MoveToPoseOutcome_NoPoseCheck(conn, cur, cc, svc, pose, k, rd) ==
    LET ws == Writes(pose)
    IN  IF ~conn
            THEN Outcome("False", cur, cc, svc, << >>, FALSE)
        ELSE IF cur # NoPose /\ ~IsTransitionSafe(cur, pose)
            THEN Outcome("False", cur, cc, svc, << >>, FALSE)
        ELSE IF k = 0
            THEN Outcome("True", pose, cc, svc, Sent(ws, 0, FALSE), FALSE)
        ELSE Outcome("False", cur, cc, svc, Sent(ws, k, rd), TRUE)

\* variant of MoveToPoseOutcome that validates before it looks at is_connected
MoveToPoseOutcome_ValidateFirst(conn, cur, cc, svc, pose, k, rd) ==
    LET v  == IsPoseSafe(pose, cc, svc)
        ws == Writes(pose)
    IN  IF ~v.ok
            THEN Outcome("False", cur, v.collision_count,
                         v.safety_violation_count, << >>, FALSE)
        ELSE IF cur # NoPose /\ ~IsTransitionSafe(cur, pose)
            THEN Outcome("False", cur, v.collision_count,
                         v.safety_violation_count, << >>, FALSE)
        ELSE IF ~conn
            THEN Outcome("False", cur, cc, svc, << >>, FALSE)
        ELSE IF k = 0
            THEN Outcome("True", pose, v.collision_count,
                         v.safety_violation_count, Sent(ws, 0, FALSE), FALSE)
        ELSE Outcome("False", cur, v.collision_count,
                     v.safety_violation_count, Sent(ws, k, rd), TRUE)

\* variant of MoveToPoseOutcome that counts a refused transition as a
\* safety violation
MoveToPoseOutcome_CountTransition(conn, cur, cc, svc, pose, k, rd) ==
    LET v  == IsPoseSafe(pose, cc, svc)
        ws == Writes(pose)
    IN  IF ~conn
            THEN Outcome("False", cur, cc, svc, << >>, FALSE)
        ELSE IF ~v.ok
            THEN Outcome("False", cur, v.collision_count,
                         v.safety_violation_count, << >>, FALSE)
        ELSE IF cur # NoPose /\ ~IsTransitionSafe(cur, pose)
            THEN Outcome("False", cur, v.collision_count,
                         v.safety_violation_count + 1, << >>, FALSE)
        ELSE IF k = 0
            THEN Outcome("True", pose, v.collision_count,
                         v.safety_violation_count, Sent(ws, 0, FALSE), FALSE)
        ELSE Outcome("False", cur, v.collision_count,
                     v.safety_violation_count, Sent(ws, k, rd), TRUE)

\* move_to_pose(pose) called with is_connected = conn, current_pose = cur and
\* the counters at cc, svc, the link raising fault (k, rd) if it is written to
MoveToPoseOutcome(conn, cur, cc, svc, pose, k, rd) ==
    LET v  == IsPoseSafe(pose, cc, svc)
        ws == Writes(pose)
    IN  IF ~conn
            THEN Outcome("False", cur, cc, svc, << >>, FALSE)
        ELSE IF ~v.ok
            THEN Outcome("False", cur, v.collision_count,
                         v.safety_violation_count, << >>, FALSE)
        ELSE IF cur # NoPose /\ ~IsTransitionSafe(cur, pose)
            THEN Outcome("False", cur, v.collision_count,
                         v.safety_violation_count, << >>, FALSE)
        ELSE IF k = 0
            THEN Outcome("True", pose, v.collision_count,
                         v.safety_violation_count, Sent(ws, 0, FALSE), FALSE)
        ELSE Outcome("False", cur, v.collision_count,
                     v.safety_violation_count, Sent(ws, k, rd), TRUE)

\* move_to_pose(pose) gets as far as writing to the link
Dispatches(conn, cur, pose) ==
    /\ conn
    /\ IsPoseSafe(pose, 0, 0).ok
    /\ cur = NoPose \/ IsTransitionSafe(cur, pose)

\* the faults a move can meet; none when it never writes to the link
MoveFaults(conn, cur, pose) ==
    IF Dispatches(conn, cur, pose) THEN Faults(Writes(pose)) ELSE { <<0, FALSE>> }

\* the counters stay within the bound of the model
WithinBound(o) ==
    /\ o.collision_count <= MaxCount
    /\ o.safety_violation_count <= MaxCount

\* poses handed to move_to_pose
MovePoses ==
    { POSE_HOME, POSE_PICKUP,
      Pose(0, 90, 90, 90, 10),      \* base 90 away from home
      Pose(180, 90, 90, 0, 90),     \* base 180 away from the pose above
      Pose(90, 20, 10, 90, 10),     \* in the collision zone
      Pose(181, 20, 10, 90, 10) }   \* base out of range and in the zone

MoveToPose(pose, k, rd) ==
    /\ Idle
    /\ \E o \in { MoveToPoseOutcome(is_connected, current_pose, collision_count,
                                     safety_violation_count, pose, k, rd) } :
        /\ WithinBound(o)
        /\ call' = Call("move_to_pose", pose, current_pose, FALSE)
        /\ ret' = o.ret
        /\ err' = o.err
        /\ link' = o.link
        /\ current_pose' = o.current_pose
        /\ collision_count' = o.collision_count
        /\ safety_violation_count' = o.safety_violation_count
        /\ UNCHANGED <<is_connected, serial_conn, ctxVars>>

Home(k, rd) ==
    /\ Idle
    /\ \E o \in { MoveToPoseOutcome(is_connected, current_pose, collision_count,
                                     safety_violation_count, POSE_HOME, k, rd) } :
        /\ WithinBound(o)
        /\ call' = Call("home", POSE_HOME, current_pose, FALSE)
        /\ ret' = o.ret
        /\ err' = o.err
        /\ link' = o.link
        /\ current_pose' = o.current_pose
        /\ collision_count' = o.collision_count
        /\ safety_violation_count' = o.safety_violation_count
        /\ UNCHANGED <<is_connected, serial_conn, ctxVars>>

\* variant of ConnectOutcome that does not move home after opening the link
ConnectOutcome_NoHome(cur, cc, svc, open_ok, k, rd) ==
    IF open_ok
        THEN Outcome("True", cur, cc, svc, << >>, FALSE)
        ELSE Outcome("False", cur, cc, svc, << >>, FALSE)

\* connect(): open_ok says whether serial.Serial(...) opens the port or
\* raises SerialException; (k, rd) is the fault met by the home move.
ConnectOutcome(cur, cc, svc, open_ok, k, rd) ==
    IF open_ok
        THEN LET o == MoveToPoseOutcome(TRUE, cur, cc, svc, POSE_HOME, k, rd)
             IN  [o EXCEPT !.ret = "True"]
        ELSE Outcome("False", cur, cc, svc, << >>, FALSE)

Connect(open_ok, k, rd) ==
    /\ Idle
    /\ \E o \in { ConnectOutcome(current_pose, collision_count,
                                  safety_violation_count, open_ok, k, rd) } :
        /\ WithinBound(o)
        /\ call' = Call("connect", NoPose, current_pose, open_ok)
        /\ is_connected' = open_ok
        /\ serial_conn' = IF open_ok THEN "open" ELSE serial_conn
        /\ ret' = o.ret
        /\ err' = o.err
        /\ link' = o.link
        /\ current_pose' = o.current_pose
        /\ collision_count' = o.collision_count
        /\ safety_violation_count' = o.safety_violation_count
        /\ UNCHANGED ctxVars

\* variant of Disconnect that closes the port and leaves is_connected set
Disconnect_KeepsFlag ==
    /\ Idle
    /\ call' = Call("disconnect", NoPose, NoPose, FALSE)
    /\ IF serial_conn = "open"
          THEN serial_conn' = "closed"
          ELSE UNCHANGED serial_conn
    /\ ret' = "None"
    /\ err' = FALSE
    /\ link' = << >>
    /\ UNCHANGED <<is_connected, current_pose, statVars, ctxVars>>

Disconnect ==
    /\ Idle
    /\ call' = Call("disconnect", NoPose, NoPose, FALSE)
    /\ IF serial_conn = "open"
          THEN serial_conn' = "closed" /\ is_connected' = FALSE
          ELSE UNCHANGED <<serial_conn, is_connected>>
    /\ ret' = "None"
    /\ err' = FALSE
    /\ link' = << >>
    /\ UNCHANGED <<current_pose, statVars, ctxVars>>

\* send_command(c) called with is_connected = TRUE: what reaches the link
\* and whether the call raises, under fault (k, rd)
SendCommand(c, k, rd) ==
    LET ws == << Wr(<<c>>, TRUE) >>
    IN  [link |-> Sent(ws, k, rd), err |-> (k # 0)]

\* the faults a single send_command can meet; none when it is not reached
CommandFaults(conn) ==
    IF conn THEN Faults(<< Wr(<<"h">>, TRUE) >>) ELSE { <<0, FALSE>> }

\* open_gripper() and close_gripper(): c is 'o' or 'c'
GripperOutcome(conn, c, k, rd) ==
    IF ~conn
        THEN [ret |-> "False", link |-> << >>, err |-> FALSE]
        ELSE LET s == SendCommand(c, k, rd)
             IN  [ret |-> IF s.err THEN "False" ELSE "True",
                  link |-> s.link, err |-> s.err]

OpenGripper(k, rd) ==
    /\ Idle
    /\ \E o \in { GripperOutcome(is_connected, "o", k, rd) } :
        /\ TRUE
        /\ call' = Call("open_gripper", NoPose, NoPose, FALSE)
        /\ ret' = o.ret
        /\ err' = o.err
        /\ link' = o.link
        /\ UNCHANGED <<armVars, statVars, ctxVars>>

CloseGripper(k, rd) ==
    /\ Idle
    /\ \E o \in { GripperOutcome(is_connected, "c", k, rd) } :
        /\ TRUE
        /\ call' = Call("close_gripper", NoPose, NoPose, FALSE)
        /\ ret' = o.ret
        /\ err' = o.err
        /\ link' = o.link
        /\ UNCHANGED <<armVars, statVars, ctxVars>>

\* variant of EmergencyStopOutcome that stops by a validated move to home
EmergencyStopOutcome_ViaHome(conn, cur, cc, svc, k, rd) ==
    [MoveToPoseOutcome(conn, cur, cc, svc, POSE_HOME, 0, FALSE)
        EXCEPT !.ret = "None"]

\* emergency_stop(): no try/except, a transport error propagates
EmergencyStopOutcome(conn, cur, cc, svc, k, rd) ==
    IF ~conn
        THEN Outcome("None", cur, cc, svc, << >>, FALSE)
        ELSE LET s == SendCommand("h", k, rd)
             IN  Outcome(IF s.err THEN "raise" ELSE "None",
                         cur, cc, svc, s.link, s.err)

EmergencyStop(k, rd) ==
    /\ Idle
    /\ \E o \in { EmergencyStopOutcome(is_connected, current_pose, collision_count,
                                        safety_violation_count, k, rd) } :
        /\ TRUE
        /\ call' = Call("emergency_stop", NoPose, NoPose, FALSE)
        /\ ret' = o.ret
        /\ err' = o.err
        /\ link' = o.link
        /\ current_pose' = o.current_pose
        /\ collision_count' = o.collision_count
        /\ safety_violation_count' = o.safety_violation_count
        /\ UNCHANGED <<is_connected, serial_conn, ctxVars>>

Next ==
    \/ \E open_ok \in BOOLEAN :
         \E f \in MoveFaults(open_ok, current_pose, POSE_HOME) :
            Connect(open_ok, f[1], f[2])
    \/ Disconnect
    \/ \E pose \in MovePoses :
         \E f \in MoveFaults(is_connected, current_pose, pose) :
            MoveToPose(pose, f[1], f[2])
    \/ \E f \in MoveFaults(is_connected, current_pose, POSE_HOME) :
         Home(f[1], f[2])
    \/ \E f \in CommandFaults(is_connected) : OpenGripper(f[1], f[2])
    \/ \E f \in CommandFaults(is_connected) : CloseGripper(f[1], f[2])
    \/ \E f \in CommandFaults(is_connected) : EmergencyStop(f[1], f[2])

Spec == Init /\ [][Next]_vars

TypeOK ==
    /\ is_connected \in BOOLEAN
    /\ serial_conn \in {"None", "open", "closed"}
    /\ is_connected => serial_conn = "open"
    /\ collision_count \in 0..MaxCount
    /\ safety_violation_count \in 0..MaxCount
    /\ ret \in {"True", "False", "None", "raise"}
    /\ err \in BOOLEAN

---------------------------------------------------------------------------
(* safety.py: SafetyChecker called directly.  The poses handed to the      *)
(* checker are drawn once, in the initial state, and kept in call; the     *)
(* actions apply the methods to them.                                      *)

BaseVals     == {-1, 0, 90, 180, 181}
ShoulderVals == {14, 15, 20, 40, 41, 165, 166}
ElbowVals    == {-1, 0, 10, 30, 31, 180, 181}
WristVals    == {-1, 0, 180, 181}
GripperVals  == {9, 10, 90, 91}

PoseGrid ==
    { Pose(b, s, e, w, g) : b \in BaseVals, s \in ShoulderVals,
                            e \in ElbowVals, w \in WristVals, g \in GripperVals }

\* the current_pose argument of is_transition_safe
CurGrid == { POSE_HOME, Pose(90, 75, 90, 90, 10), Pose(0, 15, 0, 0, 90) }

InitChecker ==
    /\ is_connected = FALSE
    /\ serial_conn = "None"
    /\ current_pose = NoPose
    /\ collision_count = 0
    /\ safety_violation_count = 0
    /\ link = << >>
    /\ \E pose \in PoseGrid, cur \in CurGrid : call = Call("init", pose, cur, FALSE)
    /\ ret = "None"
    /\ err = FALSE
    /\ pc = [t \in Threads |-> At("idle", 0)]
    /\ tgt = [t \in Threads |-> NoPose]
    /\ seen = [t \in Threads |-> NoPose]
    /\ tret = [t \in Threads |-> "None"]

BoolStr(b) == IF b THEN "True" ELSE "False"

\* checker.is_pose_safe(call.pose)
IsPoseSafeCall ==
    \E v \in { IsPoseSafe(call.pose, collision_count, safety_violation_count) } :
        /\ WithinBound(v)
        /\ call' = [call EXCEPT !.op = "is_pose_safe"]
        /\ ret' = BoolStr(v.ok)
        /\ collision_count' = v.collision_count
        /\ safety_violation_count' = v.safety_violation_count
        /\ UNCHANGED <<armVars, link, err, ctxVars>>

\* checker.is_transition_safe(call.cur, call.pose)
IsTransitionSafeCall ==
    /\ call' = [call EXCEPT !.op = "is_transition_safe"]
    /\ ret' = BoolStr(IsTransitionSafe(call.cur, call.pose))
    /\ UNCHANGED <<armVars, statVars, link, err, ctxVars>>

\* variant of ResetStats that forgets to clear safety_violation_count
ResetStats_CollisionsOnly ==
    /\ call' = [call EXCEPT !.op = "reset_stats"]
    /\ ret' = "None"
    /\ collision_count' = 0
    /\ UNCHANGED <<safety_violation_count, armVars, link, err, ctxVars>>

\* checker.reset_stats()
ResetStats ==
    /\ call' = [call EXCEPT !.op = "reset_stats"]
    /\ ret' = "None"
    /\ collision_count' = 0
    /\ safety_violation_count' = 0
    /\ UNCHANGED <<armVars, link, err, ctxVars>>

NextChecker ==
    \/ IsPoseSafeCall
    \/ IsTransitionSafeCall
    \/ ResetStats

SpecChecker == InitChecker /\ [][NextChecker]_vars

---------------------------------------------------------------------------
(* Properties of RobotArm, checked under Spec *)

\* C1: in a connected state, a move_to_pose whose target fails is_pose_safe,
\* or whose transition from the recorded pose fails is_transition_safe,
\* returns False, writes nothing to the link (not even 'm') and leaves
\* current_pose and is_connected as they were.
C1_RefusedMoveHasNoEffect ==
    [][ ( /\ call'.op = "move_to_pose"
          /\ is_connected
          /\ \/ ~IsPoseSafe(call'.pose, 0, 0).ok
             \/ /\ current_pose # NoPose
                /\ ~IsTransitionSafe(current_pose, call'.pose) )
        => ( /\ ret' = "False"
             /\ link' = << >>
             /\ err' = FALSE
             /\ current_pose' = current_pose
             /\ is_connected' = is_connected
             /\ serial_conn' = serial_conn ) ]_vars

\* a move from the pose with base 0 to the pose with base 180 was refused
C1_Witness ==
    /\ call.op = "move_to_pose"
    /\ call.pose = Pose(180, 90, 90, 0, 90)
    /\ current_pose = Pose(0, 90, 90, 90, 10)
    /\ is_connected
    /\ ret = "False"
    /\ link = << >>

\* C2: current_pose is None at first and changes only at a move (direct, by
\* home() or by connect()) whose whole dispatch m, b, s, e, w, x was written
\* without a transport error, becoming that move's target; a transport error
\* during the dispatch makes the move return False with current_pose
\* unchanged and the controller still connected.
C2_PoseFollowsCompleteDispatch ==
    /\ current_pose = NoPose
    /\ [][ /\ (current_pose' # current_pose)
              => LET target == IF call'.op = "connect" THEN POSE_HOME
                                                      ELSE call'.pose
                 IN  /\ call'.op \in {"move_to_pose", "home", "connect"}
                     /\ err' = FALSE
                     /\ ret' = "True"
                     /\ current_pose' = target
                     /\ link' = Concat(Writes(target), Len(Writes(target)))
           /\ (call'.op \in {"move_to_pose", "home"} /\ err')
              => /\ ret' = "False"
                 /\ current_pose' = current_pose
                 /\ is_connected /\ is_connected' ]_vars

\* a move failed at its last command 'x', the recorded pose is still the old one
C2_Witness ==
    /\ call.op = "move_to_pose"
    /\ call.pose = POSE_PICKUP
    /\ err
    /\ ret = "False"
    /\ is_connected
    /\ current_pose = Pose(0, 90, 90, 90, 10)
    /\ link = Concat(Writes(POSE_PICKUP), 13)

\* C6 as stated: every move refused by validation, for its target pose or
\* for the transition, increments collision_count or safety_violation_count.
C6_EveryRefusalCounted ==
    [][ ( /\ call'.op \in {"move_to_pose", "home"}
          /\ is_connected
          /\ ret' = "False"
          /\ err' = FALSE )
        => collision_count' + safety_violation_count'
              > collision_count + safety_violation_count ]_vars

\* C6 amended: a move refused because is_pose_safe rejected the target
\* increments exactly one of the two counters by one; a move refused because
\* is_transition_safe rejected the transition changes neither counter.
C6_PoseRefusalCounted ==
    [][ ( /\ call'.op \in {"move_to_pose", "home"}
          /\ is_connected
          /\ ret' = "False"
          /\ err' = FALSE )
        => LET p == call'.pose
               inRange == /\ 0 <= p.base /\ p.base <= 180
                          /\ 15 <= p.shoulder /\ p.shoulder <= 165
                          /\ 0 <= p.elbow /\ p.elbow <= 180
                          /\ 0 <= p.wrist /\ p.wrist <= 180
                          /\ 10 <= p.gripper /\ p.gripper <= 90
               inZone == /\ 15 <= p.shoulder /\ p.shoulder <= 40
                         /\ 0 <= p.elbow /\ p.elbow <= 30
           IN  IF ~inRange \/ inZone
                   THEN collision_count' + safety_violation_count'
                           = collision_count + safety_violation_count + 1
                   ELSE /\ current_pose # NoPose
                        /\ collision_count' = collision_count
                        /\ safety_violation_count' = safety_violation_count ]_vars

\* a move was refused for its transition only, and no counter has moved
C6_Witness ==
    /\ call.op = "move_to_pose"
    /\ call.pose = Pose(0, 90, 90, 90, 10)
    /\ current_pose = Pose(180, 90, 90, 0, 90)
    /\ is_connected
    /\ ret = "False"
    /\ err = FALSE
    /\ collision_count = 0
    /\ safety_violation_count = 0

\* C7: connect() from the Disconnected state: when the link does not open it
\* returns False, stays disconnected and writes nothing; when the link opens
\* the controller is connected and the home move is attempted, and when its
\* dispatch meets no transport error the recorded pose is the home pose
\* (90, 90, 90, 90, gripper 10).
C7_ConnectThenHome ==
    [][ (call'.op = "connect" /\ ~is_connected)
        => /\ ~call'.open_ok
              => /\ ret' = "False"
                 /\ ~is_connected'
                 /\ link' = << >>
                 /\ current_pose' = current_pose
           /\ call'.open_ok
              => /\ ret' = "True"
                 /\ is_connected'
                 /\ err' \/ /\ current_pose' = Pose(90, 90, 90, 90, 10)
                            /\ link' = Concat(Writes(Pose(90, 90, 90, 90, 10)), 14) ]_vars

\* the link opened and the home move recorded the home pose
C7_Witness ==
    /\ call.op = "connect"
    /\ call.open_ok
    /\ err = FALSE
    /\ is_connected
    /\ current_pose = Pose(90, 90, 90, 90, 10)
    /\ link # << >>

\* C8 as stated: the Disconnected state carries no recorded pose, and a
\* connect() from it whose link opens and whose home move fails at dispatch
\* leaves the controller connected with no recorded pose.
C8_ConnectStartsWithoutPose ==
    [][ /\ ~is_connected' => current_pose' = NoPose
        /\ (call'.op = "connect" /\ ~is_connected /\ call'.open_ok /\ err')
           => (is_connected' /\ current_pose' = NoPose) ]_vars

\* C9: emergency_stop() in a connected state writes the single command 'h'
\* (or raises on a transport error) whatever the recorded pose, and changes
\* neither counter, nor current_pose, nor is_connected; while disconnected
\* it writes nothing.
C9_EmergencyStopBypassesValidation ==
    [][ call'.op = "emergency_stop"
        => /\ collision_count' = collision_count
           /\ safety_violation_count' = safety_violation_count
           /\ current_pose' = current_pose
           /\ is_connected' = is_connected
           /\ is_connected
              => IF err' THEN ret' = "raise" /\ link' \in { << >>, <<"h">> }
                         ELSE ret' = "None" /\ link' = <<"h">>
           /\ ~is_connected
              => (ret' = "None" /\ link' = << >> /\ err' = FALSE) ]_vars

\* an emergency stop was dispatched with a pose recorded and a counter raised
C9_Witness ==
    /\ call.op = "emergency_stop"
    /\ is_connected
    /\ link = <<"h">>
    /\ ret = "None"
    /\ current_pose = Pose(180, 90, 90, 0, 90)
    /\ collision_count = 1

\* C12: move_to_pose and home called while disconnected return False without
\* any validation: the counters, current_pose, the connection and the link
\* are untouched, also when the target would have been rejected.
C12_DisconnectedMoveDoesNothing ==
    [][ (call'.op \in {"move_to_pose", "home"} /\ ~is_connected)
        => ( /\ ret' = "False"
             /\ err' = FALSE
             /\ link' = << >>
             /\ collision_count' = collision_count
             /\ safety_violation_count' = safety_violation_count
             /\ current_pose' = current_pose
             /\ is_connected' = FALSE
             /\ serial_conn' = serial_conn ) ]_vars

\* after a disconnect, a move to a pose out of range and in the zone was
\* turned down with both counters still at zero
C12_Witness ==
    /\ call.op = "move_to_pose"
    /\ call.pose = Pose(181, 20, 10, 90, 10)
    /\ ~is_connected
    /\ serial_conn = "closed"
    /\ current_pose = POSE_HOME
    /\ ret = "False"
    /\ collision_count = 0
    /\ safety_violation_count = 0

\* C13: disconnect() always leaves the arm disconnected with the link not
\* open, returns normally and writes nothing; called on an arm that is
\* already disconnected (or was never connected) it changes nothing.
C13_DisconnectLeavesDisconnected ==
    [][ (call'.op = "disconnect")
        => ( /\ is_connected' = FALSE
             /\ serial_conn' # "open"
             /\ ret' = "None"
             /\ err' = FALSE
             /\ link' = << >>
             /\ UNCHANGED <<current_pose, statVars>>
             /\ (serial_conn # "open" => UNCHANGED armVars)
             /\ (call.op = "disconnect" => UNCHANGED armVars) ) ]_vars

\* a connected arm holding the home pose was disconnected
C13_Witness ==
    /\ call.op = "disconnect"
    /\ ~is_connected
    /\ serial_conn = "closed"
    /\ current_pose = POSE_HOME

\* C17: the recorded current_pose is None or a pose within every joint limit
\* and outside the collision zone, whatever calls were made before.
C17_RecordedPoseIsSafe ==
    current_pose # NoPose =>
        /\ 0 <= current_pose.base /\ current_pose.base <= 180
        /\ 15 <= current_pose.shoulder /\ current_pose.shoulder <= 165
        /\ 0 <= current_pose.elbow /\ current_pose.elbow <= 180
        /\ 0 <= current_pose.wrist /\ current_pose.wrist <= 180
        /\ 10 <= current_pose.gripper /\ current_pose.gripper <= 90
        /\ ~ ( /\ 15 <= current_pose.shoulder /\ current_pose.shoulder <= 40
               /\ 0 <= current_pose.elbow /\ current_pose.elbow <= 30 )

\* a move to a pose out of range and in the zone was refused on a connected
\* arm and the pose recorded before it is still the recorded one
C17_Witness ==
    /\ call.op = "move_to_pose"
    /\ call.pose = Pose(181, 20, 10, 90, 10)
    /\ is_connected
    /\ ret = "False"
    /\ current_pose = Pose(180, 90, 90, 0, 90)

\* C18: whenever current_pose changes from a recorded pose p to a pose q, the
\* base, shoulder, elbow and wrist of p and q each differ by at most 90.
C18_RecordedPosesAreNear ==
    [][ (current_pose # NoPose /\ current_pose' # current_pose)
        => ( /\ current_pose' # NoPose
             /\ current_pose'.base - current_pose.base \in -90..90
             /\ current_pose'.shoulder - current_pose.shoulder \in -90..90
             /\ current_pose'.elbow - current_pose.elbow \in -90..90
             /\ current_pose'.wrist - current_pose.wrist \in -90..90 ) ]_vars

\* a connect found the pose with base 180 and wrist 0 still recorded and
\* recorded home over it: base and wrist changed by exactly 90
C18_Witness ==
    /\ call.op = "connect"
    /\ call.cur = Pose(180, 90, 90, 0, 90)
    /\ ret = "True"
    /\ current_pose = POSE_HOME

\* C20: a move_to_pose (or home) that returns True has written exactly
\* m, b<base>\n, s<shoulder>\n, e<elbow>\n, w<wrist>\n, x with the target's
\* angles in decimal, and no gripper command; 'o' and 'c' reach the link only
\* in open_gripper and close_gripper, which validate nothing and change
\* neither current_pose nor the counters.
C20_DispatchProtocol ==
    [][ LET D == <<"0", "1", "2", "3", "4", "5", "6", "7", "8", "9">>
            Dec(n) == IF n < 10 THEN << D[n + 1] >>
                      ELSE IF n < 100 THEN << D[(n \div 10) + 1], D[(n % 10) + 1] >>
                      ELSE << D[(n \div 100) + 1], D[((n \div 10) % 10) + 1],
                              D[(n % 10) + 1] >>
            t == call'.pose
            Gripper(op, c) ==
                call'.op = op =>
                    /\ UNCHANGED <<current_pose, statVars, is_connected>>
                    /\ is_connected => (link' = <<c>> \/ err')
                    /\ (is_connected /\ ~err') => ret' = "True"
                    /\ ~is_connected => (ret' = "False" /\ link' = << >>)
        IN  /\ (call'.op \in {"move_to_pose", "home"} /\ ret' = "True")
                => /\ link' = <<"m", "b">> \o Dec(t.base)
                                \o <<"\n", "s">> \o Dec(t.shoulder)
                                \o <<"\n", "e">> \o Dec(t.elbow)
                                \o <<"\n", "w">> \o Dec(t.wrist)
                                \o <<"\n", "x">>
                   /\ \A i \in 1..Len(link') : link'[i] \notin {"o", "c"}
            /\ (\E i \in 1..Len(link') : link'[i] \in {"o", "c"})
                => call'.op \in {"open_gripper", "close_gripper"}
            /\ Gripper("open_gripper", "o")
            /\ Gripper("close_gripper", "c") ]_vars

\* a move to the pose with base 180, wrist 0 and the gripper closed returned
\* True: four axes on the link, nothing for the gripper
C20_Witness ==
    /\ call.op = "move_to_pose"
    /\ call.pose = Pose(180, 90, 90, 0, 90)
    /\ ret = "True"
    /\ current_pose = call.pose
    /\ link = <<"m", "b", "1", "8", "0", "\n", "s", "9", "0", "\n",
                "e", "9", "0", "\n", "w", "0", "\n", "x">>

\* close_gripper on a connected arm with no pose recorded wrote 'c'
C20_GripperWitness ==
    /\ call.op = "close_gripper"
    /\ is_connected
    /\ ret = "True"
    /\ link = <<"c">>

---------------------------------------------------------------------------
(* Properties of SafetyChecker, checked under SpecChecker *)

\* C3: is_pose_safe returns True exactly when base is in [0,180], shoulder in
\* [15,165], elbow in [0,180], wrist in [0,180], gripper in [10,90] (bounds
\* inclusive) and not (15 <= shoulder <= 40 and 0 <= elbow <= 30).
C3_PoseSafeIffInRangeAndOutsideZone ==
    call.op = "is_pose_safe"
    => LET p == call.pose
       IN  (ret = "True")
           <=> /\ 0 <= p.base /\ p.base <= 180
               /\ 15 <= p.shoulder /\ p.shoulder <= 165
               /\ 0 <= p.elbow /\ p.elbow <= 180
               /\ 0 <= p.wrist /\ p.wrist <= 180
               /\ 10 <= p.gripper /\ p.gripper <= 90
               /\ ~(/\ 15 <= p.shoulder /\ p.shoulder <= 40
                    /\ 0 <= p.elbow /\ p.elbow <= 30)

\* shoulder 20, elbow 10 with every joint at a bound of its range: rejected
C3_Witness ==
    /\ call.op = "is_pose_safe"
    /\ call.pose = Pose(180, 20, 10, 0, 90)
    /\ ret = "False"

\* C4: a call of is_pose_safe with some joint out of range adds exactly 1 to
\* safety_violation_count and leaves collision_count, also when shoulder and
\* elbow lie in the collision zone and when several joints are out of range;
\* with all joints in range and the pose in the zone it adds exactly 1 to
\* collision_count and leaves safety_violation_count; a call that returns
\* True changes neither.
C4_CountersPerCall ==
    [][ call'.op = "is_pose_safe"
        => LET p == call'.pose
               inRange == /\ 0 <= p.base /\ p.base <= 180
                          /\ 15 <= p.shoulder /\ p.shoulder <= 165
                          /\ 0 <= p.elbow /\ p.elbow <= 180
                          /\ 0 <= p.wrist /\ p.wrist <= 180
                          /\ 10 <= p.gripper /\ p.gripper <= 90
               inZone == /\ 15 <= p.shoulder /\ p.shoulder <= 40
                         /\ 0 <= p.elbow /\ p.elbow <= 30
           IN  /\ ~inRange
                  => /\ safety_violation_count' = safety_violation_count + 1
                     /\ collision_count' = collision_count
                     /\ ret' = "False"
               /\ (inRange /\ inZone)
                  => /\ collision_count' = collision_count + 1
                     /\ safety_violation_count' = safety_violation_count
                     /\ ret' = "False"
               /\ ret' = "True"
                  => /\ collision_count' = collision_count
                     /\ safety_violation_count' = safety_violation_count ]_vars

\* three joints out of range and the pose in the zone: one violation counted
C4_Witness ==
    /\ call.op = "is_pose_safe"
    /\ call.pose = Pose(-1, 20, 10, 181, 91)
    /\ ret = "False"
    /\ safety_violation_count = 1
    /\ collision_count = 0

\* C5: is_transition_safe(current, target) returns False exactly when base,
\* shoulder, elbow or wrist differs by more than 90 between the two poses;
\* the gripper difference plays no part.
C5_TransitionSafeIffDeltasAtMost90 ==
    call.op = "is_transition_safe"
    => LET c == call.cur
           t == call.pose
           Far(a, b) == a - b > 90 \/ b - a > 90
       IN  (ret = "False")
           <=> \/ Far(t.base, c.base)
               \/ Far(t.shoulder, c.shoulder)
               \/ Far(t.elbow, c.elbow)
               \/ Far(t.wrist, c.wrist)

\* every limited joint moves by exactly 90 and the gripper by 80: accepted
C5_Witness ==
    /\ call.op = "is_transition_safe"
    /\ call.cur = Pose(90, 75, 90, 90, 10)
    /\ call.pose = Pose(180, 165, 0, 180, 90)
    /\ ret = "True"

---------------------------------------------------------------------------
(* robot_arm.py: move_to_pose called from two execution contexts on the    *)
(* same RobotArm.  The code takes no lock, so the contexts interleave.  A  *)
(* context is switched here only between two commands of the dispatch (a   *)
(* command is the send_command call and the value and newline written      *)
(* after it); switches inside a command would only add interleavings.      *)

\* the writes of a dispatch, grouped by command: m, b.., s.., e.., w.., x
Blocks(pose) ==
    LET ws == Writes(pose)
    IN  << <<ws[1]>>,
           <<ws[2], ws[3], ws[4]>>,
           <<ws[5], ws[6], ws[7]>>,
           <<ws[8], ws[9], ws[10]>>,
           <<ws[11], ws[12], ws[13]>>,
           <<ws[14]>> >>

ConcPoses ==
    { Pose(0, 90, 90, 90, 10), Pose(180, 90, 90, 0, 90), Pose(90, 20, 10, 90, 10) }

InitConc ==
    /\ \/ is_connected = TRUE /\ serial_conn = "open"
       \/ is_connected = FALSE /\ serial_conn = "closed"
    /\ current_pose \in {NoPose, POSE_HOME}
    /\ collision_count = 0
    /\ safety_violation_count = 0
    /\ link = << >>
    /\ call = Call("init", NoPose, NoPose, FALSE)
    /\ ret = "None"
    /\ err = FALSE
    /\ pc = [t \in Threads |-> At("idle", 0)]
    /\ tgt = [t \in Threads |-> NoPose]
    /\ seen = [t \in Threads |-> NoPose]
    /\ tret = [t \in Threads |-> "None"]

Return(t, value) ==
    /\ pc' = [pc EXCEPT ![t] = At("done", 0)]
    /\ tret' = [tret EXCEPT ![t] = value]

\* context t calls move_to_pose(pose)
CtxCall(t, pose) ==
    /\ pc[t].at = "idle"
    /\ pc' = [pc EXCEPT ![t] = At("check_connected", 0)]
    /\ tgt' = [tgt EXCEPT ![t] = pose]
    /\ UNCHANGED <<armVars, statVars, link, seqVars, seen, tret>>

\* if not self.is_connected: return False
CtxCheckConnected(t) ==
    /\ pc[t].at = "check_connected"
    /\ IF is_connected
          THEN pc' = [pc EXCEPT ![t] = At("pose_check", 0)] /\ UNCHANGED tret
          ELSE Return(t, "False")
    /\ UNCHANGED <<armVars, statVars, link, seqVars, tgt, seen>>

\* if not self.safety_checker.is_pose_safe(pose): return False
CtxPoseCheck(t) ==
    /\ pc[t].at = "pose_check"
    /\ \E v \in { IsPoseSafe(tgt[t], collision_count, safety_violation_count) } :
        /\ WithinBound(v)
        /\ collision_count' = v.collision_count
        /\ safety_violation_count' = v.safety_violation_count
        /\ IF v.ok
              THEN pc' = [pc EXCEPT ![t] = At("transition_check", 0)]
                   /\ UNCHANGED tret
              ELSE Return(t, "False")
    /\ UNCHANGED <<armVars, link, seqVars, tgt, seen>>

\* if self.current_pose: if not is_transition_safe(self.current_pose, pose): ...
CtxTransitionCheck(t) ==
    /\ pc[t].at = "transition_check"
    /\ seen' = [seen EXCEPT ![t] = current_pose]
    /\ IF current_pose # NoPose /\ ~IsTransitionSafe(current_pose, tgt[t])
          THEN Return(t, "False")
          ELSE pc' = [pc EXCEPT ![t] = At("send", 1)] /\ UNCHANGED tret
    /\ UNCHANGED <<armVars, statVars, link, seqVars, tgt>>

\* the next command of the dispatch, the link raising fault (k, rd) in it
CtxSend(t, k, rd) ==
    /\ pc[t].at = "send"
    /\ LET blocks == Blocks(tgt[t])
           ws == blocks[pc[t].i]
       IN  /\ <<k, rd>> \in Faults(ws)
           /\ link' = link \o Sent(ws, k, rd)
           /\ IF k # 0
                 THEN Return(t, "False")
                 ELSE /\ pc' = [pc EXCEPT ![t] =
                                  IF pc[t].i = Len(blocks) THEN At("record", 0)
                                  ELSE At("send", pc[t].i + 1)]
                      /\ UNCHANGED tret
    /\ UNCHANGED <<armVars, statVars, seqVars, tgt, seen>>

\* self.current_pose = pose; return True
CtxRecord(t) ==
    /\ pc[t].at = "record"
    /\ current_pose' = tgt[t]
    /\ Return(t, "True")
    /\ UNCHANGED <<is_connected, serial_conn, statVars, link, seqVars, tgt, seen>>

BlockFaults == (0..3) \X BOOLEAN

NextConc ==
    \E t \in Threads :
        \/ \E pose \in ConcPoses : CtxCall(t, pose)
        \/ CtxCheckConnected(t)
        \/ CtxPoseCheck(t)
        \/ CtxTransitionCheck(t)
        \/ \E f \in BlockFaults : CtxSend(t, f[1], f[2])
        \/ CtxRecord(t)

SpecConc == InitConc /\ [][NextConc]_vars

\* context t is between the start of its validation and its update of
\* current_pose
InFlight(t) == pc[t].at \in {"pose_check", "transition_check", "send", "record"}

FullDispatch(pose) == Concat(Writes(pose), Len(Writes(pose)))

\* C10 as stated: two move_to_pose calls on one RobotArm are serialized: at
\* most one is in flight at any time, so two completed dispatches lie one
\* after the other on the link, and a call records its target only while
\* current_pose is still the pose its transition check was made against.
C10_MovesSerialized ==
    /\ ~(InFlight(1) /\ InFlight(2))
    /\ (tret[1] = "True" /\ tret[2] = "True")
       => link \in { FullDispatch(tgt[1]) \o FullDispatch(tgt[2]),
                     FullDispatch(tgt[2]) \o FullDispatch(tgt[1]) }
    /\ \A t \in Threads : pc[t].at = "record" => seen[t] = current_pose

\* the two dispatches interleaved on the link
C10_Interleaved ==
    /\ tret[1] = "True" /\ tret[2] = "True"
    /\ link \notin { FullDispatch(tgt[1]) \o FullDispatch(tgt[2]),
                     FullDispatch(tgt[2]) \o FullDispatch(tgt[1]) }

\* a pose recorded over one that is 180 degrees of base away from it
C10_UncheckedTransition ==
    \E t \in Threads :
        /\ pc[t].at = "record"
        /\ current_pose # NoPose
        /\ ~IsTransitionSafe(current_pose, tgt[t])

---------------------------------------------------------------------------
(* robot_arm.py: emergency_stop called from a second execution context     *)
(* while the first runs move_to_pose.  Context 1 is the mover, context 2   *)
(* the stopper.                                                            *)

Mover == 1
Stopper == 2

InitStop ==
    /\ is_connected = TRUE /\ serial_conn = "open"
    /\ current_pose \in {NoPose, POSE_HOME}
    /\ collision_count = 0
    /\ safety_violation_count = 0
    /\ link = << >>
    /\ call = Call("init", NoPose, NoPose, FALSE)
    /\ ret = "None"
    /\ err = FALSE
    /\ pc = [t \in Threads |-> At("idle", 0)]
    /\ tgt = [t \in Threads |-> NoPose]
    /\ seen = [t \in Threads |-> NoPose]
    /\ tret = [t \in Threads |-> "None"]

\* context t calls emergency_stop()
CtxStopCall(t) ==
    /\ pc[t].at = "idle"
    /\ pc' = [pc EXCEPT ![t] = At("stop_check", 0)]
    /\ UNCHANGED <<armVars, statVars, link, seqVars, tgt, seen, tret>>

\* emergency_stop takes no lock and waits for nothing: the context at place
\* runs its next step whatever the other contexts are doing
StopReady(t, place) ==
    pc[t].at = place

\* if self.is_connected:
CtxStopCheck(t) ==
    /\ StopReady(t, "stop_check")
    /\ IF is_connected
          THEN pc' = [pc EXCEPT ![t] = At("stop_send", 0)] /\ UNCHANGED tret
          ELSE Return(t, "None")
    /\ UNCHANGED <<armVars, statVars, link, seqVars, tgt, seen>>

\* self.send_command('h'), the link raising fault (k, rd)
CtxStopSend(t, k, rd) ==
    /\ StopReady(t, "stop_send")
    /\ <<k, rd>> \in CommandFaults(TRUE)
    /\ \E s \in { SendCommand("h", k, rd) } :
        /\ link' = link \o s.link
        /\ Return(t, IF s.err THEN "raise" ELSE "None")
    /\ UNCHANGED <<armVars, statVars, seqVars, tgt, seen>>

NextStop ==
    \/ \E pose \in ConcPoses : CtxCall(Mover, pose)
    \/ CtxCheckConnected(Mover)
    \/ CtxPoseCheck(Mover)
    \/ CtxTransitionCheck(Mover)
    \/ \E f \in BlockFaults : CtxSend(Mover, f[1], f[2])
    \/ CtxRecord(Mover)
    \/ CtxStopCall(Stopper)
    \/ CtxStopCheck(Stopper)
    \/ \E f \in BlockFaults : CtxStopSend(Stopper, f[1], f[2])

SpecStop == InitStop /\ [][NextStop]_vars

\* C11 as stated: once emergency_stop has been called, the next characters
\* to reach the link are its 'h': no command of the move in flight that was
\* still unsent at the call is written before it.
C11_StopBeforeUnsentCommands ==
    [][ (pc[Stopper].at \in {"stop_check", "stop_send"} /\ link' # link)
        => ( /\ pc[Stopper].at = "stop_send"
             /\ pc'[Stopper].at = "done"
             /\ link' = link \o <<"h">> ) ]_vars

\* emergency_stop is never blocked by the move: its pending step is enabled
\* in every state
C11_StopNeverBlocked ==
    /\ pc[Stopper].at = "stop_check" => ENABLED CtxStopCheck(Stopper)
    /\ pc[Stopper].at = "stop_send" => ENABLED CtxStopSend(Stopper, 0, FALSE)

\* the move went on after the stop: commands follow 'h' on the link and the
\* target is recorded
C11_MoveContinuesAfterStop ==
    /\ tret[Stopper] = "None" /\ pc[Stopper].at = "done"
    /\ tret[Mover] = "True"
    /\ \E i \in 1..Len(link) : link[i] = "h" /\ i < Len(link)
    /\ current_pose = tgt[Mover]

---------------------------------------------------------------------------
(* safety.py: check_emergency_conditions, checked under SpecEmergency *)

EMERGENCY_LIMITS == [max_speed |-> 50, min_clearance |-> 5, max_force |-> 10]

\* None as the error message of check_emergency_conditions
NoReason == << >>

\* the f-string of a reason: the text before the reading, the reading as
\* str() prints an int, the text after it
Reason(before, reading, after) == <<before, Str(reading), after>>

\* variant of CheckEmergencyConditions whose comparisons include the limits
CheckEmergencyConditions_Inclusive(sensor_data) ==
    IF /\ "distance" \in DOMAIN sensor_data
       /\ sensor_data["distance"] <= EMERGENCY_LIMITS.min_clearance
        THEN <<FALSE, Reason("Obstacle detected at ", sensor_data["distance"], "cm")>>
    ELSE IF /\ "force" \in DOMAIN sensor_data
            /\ sensor_data["force"] >= EMERGENCY_LIMITS.max_force
        THEN <<FALSE, Reason("Excessive force detected: ", sensor_data["force"], "N")>>
    ELSE IF /\ "temperature" \in DOMAIN sensor_data
            /\ sensor_data["temperature"] >= 70
        THEN <<FALSE, Reason("Motor overheating: ", sensor_data["temperature"], "°C")>>
    ELSE <<TRUE, NoReason>>

\* check_emergency_conditions(sensor_data): the tuple (is_safe, error_message)
CheckEmergencyConditions(sensor_data) ==
    IF /\ "distance" \in DOMAIN sensor_data
       /\ sensor_data["distance"] < EMERGENCY_LIMITS.min_clearance
        THEN <<FALSE, Reason("Obstacle detected at ", sensor_data["distance"], "cm")>>
    ELSE IF /\ "force" \in DOMAIN sensor_data
            /\ sensor_data["force"] > EMERGENCY_LIMITS.max_force
        THEN <<FALSE, Reason("Excessive force detected: ", sensor_data["force"], "N")>>
    ELSE IF /\ "temperature" \in DOMAIN sensor_data
            /\ sensor_data["temperature"] > 70
        THEN <<FALSE, Reason("Motor overheating: ", sensor_data["temperature"], "°C")>>
    ELSE <<TRUE, NoReason>>

\* the keys the function looks for, and the readings tried for each
SensorKeys == {"distance", "force", "temperature"}
Readings ==
    [distance |-> {2, 4, 5, 6}, force |-> {9, 10, 11, 12},
     temperature |-> {69, 70, 71, 100}]

\* every dict over a subset of the keys, each present key with one reading
SensorGrid ==
    UNION { { sd \in [K -> UNION { Readings[k] : k \in SensorKeys }] :
                \A k \in K : sd[k] \in Readings[k] } : K \in SUBSET SensorKeys }

\* a call of check_emergency_conditions and its argument
EmergencyCall(op, sensor_data) == [op |-> op, sensor_data |-> sensor_data]

InitEmergency ==
    /\ is_connected = FALSE
    /\ serial_conn = "None"
    /\ current_pose = NoPose
    /\ collision_count = 0
    /\ safety_violation_count = 0
    /\ link = << >>
    /\ \E sd \in SensorGrid : call = EmergencyCall("init", sd)
    /\ ret = "None"
    /\ err = FALSE
    /\ pc = [t \in Threads |-> At("idle", 0)]
    /\ tgt = [t \in Threads |-> NoPose]
    /\ seen = [t \in Threads |-> NoPose]
    /\ tret = [t \in Threads |-> "None"]

\* check_emergency_conditions(sensor_data): a module function, it reads no
\* field of the checker or of the arm
CheckEmergency(sensor_data) ==
    /\ Idle
    /\ call' = EmergencyCall("check_emergency_conditions", sensor_data)
    /\ ret' = CheckEmergencyConditions(sensor_data)
    /\ err' = FALSE
    /\ link' = << >>
    /\ UNCHANGED <<armVars, statVars, ctxVars>>

NextEmergency == call.op = "init" /\ CheckEmergency(call.sensor_data)

SpecEmergency == InitEmergency /\ [][NextEmergency]_vars

\* C16: check_emergency_conditions reports the first violation in the order
\* distance (< 5), force (> 10), temperature (> 70) and nothing else; a
\* missing key is no violation, readings equal to a threshold are safe, and
\* with no violation the result is (True, None).
C16_FirstViolationOnly ==
    call.op = "check_emergency_conditions" =>
        LET sd == call.sensor_data
            Has(k) == k \in DOMAIN sd
            D == Has("distance") /\ sd["distance"] < 5
            F == Has("force") /\ sd["force"] > 10
            T == Has("temperature") /\ sd["temperature"] > 70
        IN  /\ D => /\ ret[1] = FALSE
                    /\ ret[2][1] = "Obstacle detected at "
                    /\ ret[2][2] = Str(sd["distance"])
            /\ (~D /\ F) => /\ ret[1] = FALSE
                            /\ ret[2][1] = "Excessive force detected: "
                            /\ ret[2][2] = Str(sd["force"])
            /\ (~D /\ ~F /\ T) => /\ ret[1] = FALSE
                                  /\ ret[2][1] = "Motor overheating: "
                                  /\ ret[2][2] = Str(sd["temperature"])
            /\ (~D /\ ~F /\ ~T) => ret = <<TRUE, NoReason>>

\* distance exactly at its threshold, force and temperature both over theirs:
\* only the force is reported
C16_Witness ==
    /\ call.op = "check_emergency_conditions"
    /\ call.sensor_data = [distance |-> 5, force |-> 11, temperature |-> 71]
    /\ ret = <<FALSE, <<"Excessive force detected: ", <<"1", "1">>, "N">> >>

\* the empty dict and the dict of readings at the thresholds are safe
C16_ThresholdsSafe ==
    (call.op = "check_emergency_conditions"
        /\ call.sensor_data \in { [k \in {} |-> 0],
                                  [distance |-> 5, force |-> 10, temperature |-> 70] })
    => ret = <<TRUE, NoReason>>

---------------------------------------------------------------------------
(* The arm and its checker used together, checked under SpecStats *)

\* poses handed to the checker and to the arm: accepted, out of range, and
\* in range inside the collision zone
StatsPoses == { POSE_HOME, Pose(181, 20, 10, 90, 10), Pose(90, 20, 10, 90, 10) }

\* transport faults tried: none, the first write raises, the read of the
\* last response raises
StatsFaults == { <<0, FALSE>>, <<1, FALSE>>, <<14, TRUE>> }

\* sensor dicts tried: empty, an obstacle, force and temperature over
StatsSensors ==
    { [k \in {} |-> 0], [distance |-> 2], [force |-> 11, temperature |-> 71] }

\* arm.safety_checker.is_pose_safe(pose), called from outside the arm
IsPoseSafeDirect(pose) ==
    /\ Idle
    /\ \E v \in { IsPoseSafe(pose, collision_count, safety_violation_count) } :
        /\ WithinBound(v)
        /\ call' = Call("is_pose_safe", pose, NoPose, FALSE)
        /\ ret' = BoolStr(v.ok)
        /\ collision_count' = v.collision_count
        /\ safety_violation_count' = v.safety_violation_count
    /\ err' = FALSE
    /\ link' = << >>
    /\ UNCHANGED <<armVars, ctxVars>>

\* arm.safety_checker.is_transition_safe(cur, pose)
IsTransitionSafeDirect(cur, pose) ==
    /\ Idle
    /\ call' = Call("is_transition_safe", pose, cur, FALSE)
    /\ ret' = BoolStr(IsTransitionSafe(cur, pose))
    /\ err' = FALSE
    /\ link' = << >>
    /\ UNCHANGED <<armVars, statVars, ctxVars>>

\* arm.safety_checker.is_in_collision_zone(pose)
IsInCollisionZoneDirect(pose) ==
    /\ Idle
    /\ call' = Call("is_in_collision_zone", pose, NoPose, FALSE)
    /\ ret' = BoolStr(IsInCollisionZone(pose))
    /\ err' = FALSE
    /\ link' = << >>
    /\ UNCHANGED <<armVars, statVars, ctxVars>>

\* arm.safety_checker.calculate_reach(pose): it reads pose.shoulder,
\* pose.elbow and the link lengths and assigns nothing; the float it returns
\* is not represented
CalculateReach(pose) ==
    /\ Idle
    /\ call' = Call("calculate_reach", pose, NoPose, FALSE)
    /\ ret' = "float"
    /\ err' = FALSE
    /\ link' = << >>
    /\ UNCHANGED <<armVars, statVars, ctxVars>>

\* arm.safety_checker.get_safety_stats(): a dict of the two counters
GetSafetyStats ==
    /\ Idle
    /\ call' = Call("get_safety_stats", NoPose, NoPose, FALSE)
    /\ ret' = [collision_count |-> collision_count,
               safety_violation_count |-> safety_violation_count]
    /\ err' = FALSE
    /\ link' = << >>
    /\ UNCHANGED <<armVars, statVars, ctxVars>>

NextStats ==
    \/ \E open_ok \in BOOLEAN :
         \E f \in MoveFaults(open_ok, current_pose, POSE_HOME) \cap StatsFaults :
            Connect(open_ok, f[1], f[2])
    \/ Disconnect
    \/ \E pose \in StatsPoses :
         \E f \in MoveFaults(is_connected, current_pose, pose) \cap StatsFaults :
            MoveToPose(pose, f[1], f[2])
    \/ \E f \in MoveFaults(is_connected, current_pose, POSE_HOME) \cap StatsFaults :
         Home(f[1], f[2])
    \/ \E f \in CommandFaults(is_connected) : OpenGripper(f[1], f[2])
    \/ \E f \in CommandFaults(is_connected) : CloseGripper(f[1], f[2])
    \/ \E f \in CommandFaults(is_connected) : EmergencyStop(f[1], f[2])
    \/ \E pose \in StatsPoses : IsPoseSafeDirect(pose)
    \/ \E cur \in StatsPoses, pose \in StatsPoses : IsTransitionSafeDirect(cur, pose)
    \/ \E pose \in StatsPoses : IsInCollisionZoneDirect(pose)
    \/ \E pose \in StatsPoses : CalculateReach(pose)
    \/ GetSafetyStats
    \/ ResetStats
    \/ \E sd \in StatsSensors : CheckEmergency(sd)

SpecStats == Init /\ [][NextStats]_vars

\* C14: the two counters never decrease except by reset_stats, which zeroes
\* both; they grow only in is_pose_safe, called directly or inside
\* move_to_pose, home or connect; is_transition_safe, is_in_collision_zone,
\* calculate_reach, get_safety_stats, check_emergency_conditions and
\* emergency_stop leave both as they were.
C14_CountersMonotone ==
    [][ /\ (collision_count' < collision_count
              \/ safety_violation_count' < safety_violation_count)
            => call'.op = "reset_stats"
        /\ call'.op = "reset_stats"
            => (collision_count' = 0 /\ safety_violation_count' = 0)
        /\ (collision_count' > collision_count
              \/ safety_violation_count' > safety_violation_count)
            => call'.op \in {"is_pose_safe", "move_to_pose", "home", "connect"}
        /\ call'.op \in {"is_transition_safe", "is_in_collision_zone",
                         "calculate_reach", "get_safety_stats",
                         "check_emergency_conditions", "emergency_stop"}
            => UNCHANGED statVars ]_vars

\* both counters had grown and an emergency_stop on the connected arm left
\* them where they were
C14_Witness ==
    /\ call.op = "emergency_stop"
    /\ is_connected
    /\ link = <<"h">>
    /\ collision_count = 1
    /\ safety_violation_count = 1

---------------------------------------------------------------------------
(* Two contexts calling is_pose_safe on one checker, checked under SpecCount.
   self.safety_violation_count += 1 and self.collision_count += 1 are a
   load of the attribute, an addition and a store; is_pose_safe takes no
   lock, so another context can run between the load and the store. *)

InitCount ==
    /\ is_connected = FALSE
    /\ serial_conn = "None"
    /\ current_pose = NoPose
    /\ collision_count = 0
    /\ safety_violation_count = 0
    /\ link = << >>
    /\ call = Call("init", NoPose, NoPose, FALSE)
    /\ ret = "None"
    /\ err = FALSE
    /\ pc = [t \in Threads |-> At("idle", 0)]
    /\ tgt = [t \in Threads |-> NoPose]
    /\ seen = [t \in Threads |-> NoPose]
    /\ tret = [t \in Threads |-> "None"]

\* the counter is_pose_safe(pose) increments: "safety_violation_count" when a
\* range check fails, "collision_count" when the zone check fails, "none"
\* when the pose is accepted
Counted(pose) ==
    LET v == IsPoseSafe(pose, 0, 0)
    IN  IF v.safety_violation_count = 1 THEN "safety_violation_count"
        ELSE IF v.collision_count = 1 THEN "collision_count"
        ELSE "none"

\* context t calls is_pose_safe(pose)
CountCall(t, pose) ==
    /\ pc[t].at = "idle"
    /\ pc' = [pc EXCEPT ![t] = At("judge", 0)]
    /\ tgt' = [tgt EXCEPT ![t] = pose]
    /\ UNCHANGED <<armVars, statVars, link, seqVars, seen, tret>>

\* the range checks and the zone check: they read the pose only
CountJudge(t) ==
    /\ pc[t].at = "judge"
    /\ IF Counted(tgt[t]) = "none"
          THEN Return(t, "True")
          ELSE pc' = [pc EXCEPT ![t] = At("load", 0)] /\ UNCHANGED tret
    /\ UNCHANGED <<armVars, statVars, link, seqVars, tgt, seen>>

\* the load of += 1: the value read is kept by the context
CountLoad(t) ==
    /\ pc[t].at = "load"
    /\ pc' = [pc EXCEPT ![t] =
                At("store", IF Counted(tgt[t]) = "collision_count"
                               THEN collision_count
                               ELSE safety_violation_count)]
    /\ UNCHANGED <<armVars, statVars, link, seqVars, tgt, seen, tret>>

\* the store of += 1, then return False
CountStore(t) ==
    /\ pc[t].at = "store"
    /\ IF Counted(tgt[t]) = "collision_count"
          THEN collision_count' = pc[t].i + 1 /\ UNCHANGED safety_violation_count
          ELSE safety_violation_count' = pc[t].i + 1 /\ UNCHANGED collision_count
    /\ Return(t, "False")
    /\ UNCHANGED <<armVars, link, seqVars, tgt, seen>>

NextCount ==
    \E t \in Threads :
        \/ \E pose \in StatsPoses : CountCall(t, pose)
        \/ CountJudge(t)
        \/ CountLoad(t)
        \/ CountStore(t)

SpecCount == InitCount /\ [][NextCount]_vars

\* C15: when several contexts call is_pose_safe on one checker, no increment
\* is lost: once all calls have returned, the two counters together have
\* grown by the number of calls that returned False.
C15_NoLostIncrement ==
    (\A t \in Threads : pc[t].at = "done")
        => collision_count + safety_violation_count
             = Cardinality({ t \in Threads : tret[t] = "False" })

\* two calls with the same out-of-range pose both returned False and the
\* counter shows one
C15_LostIncrement ==
    /\ \A t \in Threads : pc[t].at = "done" /\ tret[t] = "False"
    /\ \A t \in Threads : tgt[t] = Pose(181, 20, 10, 90, 10)
    /\ safety_violation_count = 1
    /\ collision_count = 0

---------------------------------------------------------------------------
(* home() from every pose the arm can hold, checked under SpecHome *)

\* the poses of the grid that is_pose_safe accepts; each can be recorded by a
\* move from home, so each is a current_pose a connected arm can have
AcceptedGrid == { p \in PoseGrid : IsPoseSafe(p, 0, 0).ok }

\* a connected arm with no pose or an accepted pose recorded, and the
\* counters anywhere within the bound
InitHome ==
    /\ is_connected = TRUE
    /\ serial_conn = "open"
    /\ current_pose \in AcceptedGrid \cup {NoPose}
    /\ collision_count \in 0..MaxCount
    /\ safety_violation_count \in 0..MaxCount
    /\ link = << >>
    /\ call = Call("init", NoPose, NoPose, FALSE)
    /\ ret = "None"
    /\ err = FALSE
    /\ pc = [t \in Threads |-> At("idle", 0)]
    /\ tgt = [t \in Threads |-> NoPose]
    /\ seen = [t \in Threads |-> NoPose]
    /\ tret = [t \in Threads |-> "None"]

NextHome ==
    \E f \in MoveFaults(is_connected, current_pose, POSE_HOME) \cap StatsFaults :
        Home(f[1], f[2])

SpecHome == InitHome /\ [][NextHome]_vars

\* C19: is_pose_safe accepts the home pose and is_transition_safe accepts the
\* step from every accepted pose to home, so home() on a connected arm is
\* never refused by validation: it leaves both counters as they were and
\* returns True unless the link raised.
C19_HomeNeverRefused ==
    [][ (call'.op = "home" /\ is_connected)
        => ( /\ IsPoseSafe(POSE_HOME, collision_count, safety_violation_count).ok
             /\ current_pose # NoPose => IsTransitionSafe(current_pose, POSE_HOME)
             /\ UNCHANGED statVars
             /\ ret' = "True" \/ err'
             /\ ret' = "True" => current_pose' = Pose(90, 90, 90, 90, 10)
             /\ err' => current_pose' = current_pose ) ]_vars

\* home() succeeded from the pose with every joint at its upper limit, with
\* both counters at one before and after
C19_Witness ==
    /\ call.op = "home"
    /\ call.cur = Pose(180, 165, 180, 180, 90)
    /\ ret = "True"
    /\ current_pose = POSE_HOME
    /\ collision_count = 1
    /\ safety_violation_count = 1

=============================================================================
